---- MODULE Spec2Model ----
(***************************************************************************)
(* Model of the Azure reserved-instance repurchase pipeline:               *)
(*   main.py                        the orchestrator (token, calculate,    *)
(*                                  prompts, gate, purchase)               *)
(*   calculate_reservation_order.py the calculate payload and call loop    *)
(*   generate_json_payload.py       the payload builders and the gate      *)
(*   azure_purchase_api.py          the purchase call and the batch loop   *)
(*                                                                         *)
(* Cell values of the input table are tagged records: a string is the      *)
(* sequence of its characters, so that str(), strip() and lower() are      *)
(* computed and not assumed.  A row is a function from the column names of *)
(* the file to cell values; a column the file lacks is outside its DOMAIN. *)
(* A JSON object is a function from its keys, so a key that is not         *)
(* rendered is outside the object's DOMAIN.                                *)
(***************************************************************************)
EXTENDS Integers, Sequences, FiniteSets, TLC

VARIABLES
    entry,                   \* the entry point that runs: main or generate_api_payloads
    rows,                    \* the rows of the input file, in file order
    pc,                      \* the position of the run
    payloads_confirmation,   \* the operator's last answer to get_user_confirmation
    execution_confirmation,  \* the operator's last answer to get_api_execution_confirmation
    access_token,            \* TRUE once get_azure_access_token has returned a token
    calculate_requests,      \* the payloads POSTed to the calculate endpoint, in order
    calculate_responses,     \* what requests.post did for each of them, in order
    calculation_results,     \* calculate_reservation_order's list
    purchase_payloads,       \* the gate's returned list
    skipped_no_trigger,      \* the gate's counter
    skipped_no_confirmation, \* the gate's counter
    purchase_requests,       \* the requests handed to pipeline.run, in order
    purchase_responses,      \* what pipeline.run did for each of them, in order
    results,                 \* execute_batch_purchases' list, one entry per call made
    sleeps,                  \* the number of time.sleep calls of the batch loop
    payloads,                \* generate_api_payloads' returned list
    error                    \* the exception that ended the run and the function that raised it

vars == <<entry, rows, pc, payloads_confirmation, execution_confirmation, access_token,
          calculate_requests, calculate_responses, calculation_results,
          purchase_payloads, skipped_no_trigger, skipped_no_confirmation,
          purchase_requests, purchase_responses, results, sleeps, payloads, error>>

----------------------------------------------------------------------------
(* Bounds *)

MaxRows == 2

----------------------------------------------------------------------------
(* Cell values and Python's conversions on them *)

NaN == [t |-> "nan"]
Null == [t |-> "null"]
S(chars) == [t |-> "str", s |-> chars]
N(k) == [t |-> "int", n |-> k]
F(k) == [t |-> "float", n |-> k]
B(b) == [t |-> "bool", b |-> b]
L(v) == [t |-> "list", items |-> <<v>>]

\* pd.isna(value)
IsNa(v) == v.t = "nan"

UpperCase == <<"A","B","C","D","E","F","G","H","I","J","K","L","M",
               "N","O","P","Q","R","S","T","U","V","W","X","Y","Z">>
LowerCase == <<"a","b","c","d","e","f","g","h","i","j","k","l","m",
               "n","o","p","q","r","s","t","u","v","w","x","y","z">>
Digits == <<"0","1","2","3","4","5","6","7","8","9">>
WhiteSpace == {" ", "\t"}

LowerChar(c) ==
    IF \E i \in 1..26 : UpperCase[i] = c
    THEN LowerCase[CHOOSE i \in 1..26 : UpperCase[i] = c]
    ELSE c

\* str.lower()
Lower(s) == [i \in 1..Len(s) |-> LowerChar(s[i])]

\* str.strip()
Strip(s) ==
    LET keep == {i \in 1..Len(s) : s[i] \notin WhiteSpace}
    IN  IF keep = {} THEN <<>>
        ELSE LET lo == CHOOSE i \in keep : \A j \in keep : i <= j
                 hi == CHOOSE i \in keep : \A j \in keep : j <= i
             IN  SubSeq(s, lo, hi)

RECURSIVE NatStr(_)
NatStr(k) == IF k < 10 THEN <<Digits[k + 1]>>
             ELSE NatStr(k \div 10) \o <<Digits[(k % 10) + 1]>>

IntStr(k) == IF k < 0 THEN <<"-">> \o NatStr(0 - k) ELSE NatStr(k)

\* str(value) of a cell: an int64 prints its digits, a float64 with an integral
\* value prints "<digits>.0", NaN prints "nan"
Str(v) ==
    CASE v.t = "str"   -> v.s
      [] v.t = "int"   -> IntStr(v.n)
      [] v.t = "float" -> IntStr(v.n) \o <<".", "0">>
      [] v.t = "bool"  -> IF v.b THEN <<"T","r","u","e">> ELSE <<"F","a","l","s","e">>
      [] OTHER         -> <<"n","a","n">>

DigitValue(c) == (CHOOSE i \in 1..10 : Digits[i] = c) - 1
IsDigit(c) == \E i \in 1..10 : Digits[i] = c

RECURSIVE DigitsValue(_)
DigitsValue(s) == IF s = <<>> THEN 0
                  ELSE 10 * DigitsValue(SubSeq(s, 1, Len(s) - 1)) + DigitValue(s[Len(s)])

\* int(value): [ok, n]; ok = FALSE is Python's ValueError
PyInt(v) ==
    CASE v.t \in {"int", "float"} -> [ok |-> TRUE, n |-> v.n]
      [] v.t = "str" ->
            LET t == Strip(v.s)
                signed == t # <<>> /\ t[1] \in {"-", "+"}
                d == IF signed THEN Tail(t) ELSE t
            IN  IF d # <<>> /\ \A i \in 1..Len(d) : IsDigit(d[i])
                THEN [ok |-> TRUE,
                      n |-> IF signed /\ t[1] = "-" THEN 0 - DigitsValue(d) ELSE DigitsValue(d)]
                ELSE [ok |-> FALSE, n |-> 0]
      [] OTHER -> [ok |-> FALSE, n |-> 0]

\* dict.get(key, default)
Get(obj, key, default) == IF key \in DOMAIN obj THEN obj[key] ELSE default

\* The outcome of a call that may raise: a value, or the exception raised
Ok(v) == [ok |-> TRUE, val |-> v, err |-> "none"]
Raise(e) == [ok |-> FALSE, val |-> Null, err |-> e]

----------------------------------------------------------------------------
(* The input table *)

Yes == <<"y","e","s">>
Single == <<"S","i","n","g","l","e">>
Shared == <<"S","h","a","r","e","d">>
ManagementGroup == <<"M","a","n","a","g","e","m","e","n","t","G","r","o","u","p">>
VirtualMachines == <<"V","i","r","t","u","a","l","M","a","c","h","i","n","e","s">>
SqlDatabases == <<"S","q","l","D","a","t","a","b","a","s","e","s">>
Sub123 == <<"s","u","b","-","1","2","3">>
On == <<"O","n">>

RequiredColumns == {"SKU-name", "azure region", "reservedResourceType", "subscription",
                    "term", "billingPlan", "quantity", "displayName", "appliedScopes",
                    "appliedScopeType", "renew"}
OptionalColumns == {"InstanceFlexibility", "Purchase Trigger", "Purchased Confirmed"}
AllColumns == RequiredColumns \cup OptionalColumns

\* The column sets a file may have: the gate columns and InstanceFlexibility are
\* the ones the code tests for with `in row`
ColumnChoices == {AllColumns,
                  AllColumns \ {"Purchase Trigger"},
                  AllColumns \ {"Purchased Confirmed"},
                  AllColumns \ {"Purchase Trigger", "Purchased Confirmed"},
                  AllColumns \ {"InstanceFlexibility"}}

Row(name, quantity, scopeType, scopes, resourceType, flexibility, renew, trigger, confirmed) ==
    [c \in AllColumns |->
        CASE c = "SKU-name"             -> S(<<"D","2","s">>)
          [] c = "azure region"         -> S(<<"e","a","s","t","u","s">>)
          [] c = "subscription"         -> S(<<"s","1">>)
          [] c = "term"                 -> S(<<"P","1","Y">>)
          [] c = "billingPlan"          -> S(<<"U","p","f","r","o","n","t">>)
          [] c = "displayName"          -> S(<<name>>)
          [] c = "quantity"             -> quantity
          [] c = "appliedScopeType"     -> scopeType
          [] c = "appliedScopes"        -> scopes
          [] c = "reservedResourceType" -> resourceType
          [] c = "InstanceFlexibility"  -> flexibility
          [] c = "renew"                -> renew
          [] c = "Purchase Trigger"     -> trigger
          [] c = "Purchased Confirmed"  -> confirmed]

\* The rows a file is made of.  Each differs from the first (the spec's
\* end-to-end row) in the cells one rule of the code reads.
RowSamples == {
    Row("a", N(2), S(Single), S(Sub123), S(VirtualMachines), S(On), S(Yes), S(Yes), S(Yes)),
    \* gate: trigger "no"; trigger blank with confirmation "no"; trigger " Y " with
    \* a blank confirmation; a numeric trigger column (1 with blanks reads as 1.0)
    Row("b", N(2), S(Single), S(Sub123), S(VirtualMachines), S(On), S(Yes), S(<<"n","o">>), S(Yes)),
    Row("c", N(1), S(Single), S(Sub123), S(VirtualMachines), S(On), S(Yes), NaN, S(<<"n","o">>)),
    Row("d", N(1), S(Shared), S(Sub123), S(SqlDatabases), S(On), S(<<"N","o">>),
        S(<<" ","Y"," ">>), NaN),
    Row("e", N(-1), S(ManagementGroup), NaN, S(SqlDatabases), NaN, NaN, F(1), S(<<"1">>)),
    \* case and padding variants of the enumerations
    Row("f", S(<<"3">>), S(<<"S","I","N","G","L","E">>), S(Sub123),
        S(<<"v","i","r","t","u","a","l","m","a","c","h","i","n","e","s">>), S(<<"O","f","f">>),
        S(<<" ","Y","E","S"," ">>), S(<<"1">>), S(<<"Y">>)),
    \* Single without a scope; VirtualMachines without InstanceFlexibility
    Row("g", N(2), S(Single), NaN, S(VirtualMachines), S(On), S(Yes), S(Yes), S(Yes)),
    Row("h", N(2), S(Shared), NaN, S(VirtualMachines), NaN, S(Yes), S(Yes), S(Yes)),
    \* a scope type outside the enumeration; a blank scope type
    Row("i", N(2), S(<<"T","e","n","a","n","t">>), S(Sub123), S(VirtualMachines), S(On),
        S(Yes), S(Yes), S(Yes)),
    Row("j", N(2), NaN, S(Sub123), S(SqlDatabases), NaN, S(Yes), S(Yes), S(Yes)),
    \* quantities: zero, not a number
    Row("k", N(0), S(Single), S(Sub123), S(VirtualMachines), S(On), S(Yes), S(Yes), S(Yes)),
    Row("l", S(<<"a","b","c">>), S(Shared), NaN, S(SqlDatabases), NaN, S(Yes), S(Yes), S(Yes))
}

\* A row of a file that has the columns cols
Restrict(row, cols) == [c \in cols |-> row[c]]

----------------------------------------------------------------------------
(* calculate_reservation_order.py: the calculate payload *)

SubscriptionsPrefix == <<"/","s","u","b","s","c","r","i","p","t","i","o","n","s","/">>

\* f"/subscriptions/{row['subscription']}"
BillingScopeId(row) == S(SubscriptionsPrefix \o Str(row["subscription"]))

\* row["appliedScopes"] == '' (a cell that is no string is never equal to '')
IsEmptyString(v) == v.t = "str" /\ v.s = <<>>

\* The appliedScopes of the calculate payload
CalculateAppliedScopes(row) ==
    IF IsNa(row["appliedScopes"]) \/ IsEmptyString(row["appliedScopes"])
    THEN Null
    ELSE row["appliedScopes"]

\* The reservedResourceProperties of the calculate payload
CalculateResourceProperties(row) ==
    [instanceFlexibility |-> row["InstanceFlexibility"]]

\* build_calculate_payload(row): a row[...] of a missing column raises KeyError,
\* int() of the quantity may raise ValueError
build_calculate_payload(row) ==
    IF "InstanceFlexibility" \notin DOMAIN row THEN Raise("KeyError")
    ELSE IF ~PyInt(row["quantity"]).ok THEN Raise("ValueError: int()")
    ELSE Ok([sku |-> [name |-> row["SKU-name"]],
             location |-> row["azure region"],
             properties |->
                [reservedResourceType |-> row["reservedResourceType"],
                 billingScopeId |-> BillingScopeId(row),
                 term |-> row["term"],
                 billingPlan |-> row["billingPlan"],
                 quantity |-> N(PyInt(row["quantity"]).n),
                 displayName |-> row["displayName"],
                 appliedScopes |-> CalculateAppliedScopes(row),
                 appliedScopeType |-> row["appliedScopeType"],
                 reservedResourceProperties |-> CalculateResourceProperties(row)]])

----------------------------------------------------------------------------
(* generate_json_payload.py: the purchase payloads *)

Affirmative == {<<"1">>, <<"y">>, Yes}
ScopeTypes == {Lower(Single), Lower(Shared), Lower(ManagementGroup)}

\* A renew flag that compares without trimming
RenewUntrimmed(row) == B(Lower(Str(row["renew"])) = Yes)

\* str(row["renew"]).strip().lower() == "yes"
Renew(row) == B(Lower(Strip(Str(row["renew"]))) = Yes)

\* resource_type.lower() == "virtualmachines"
IsVirtualMachines(row) ==
    Lower(Strip(Str(row["reservedResourceType"]))) = Lower(VirtualMachines)

\* "InstanceFlexibility" not in row or pd.isna(row["InstanceFlexibility"])
LacksInstanceFlexibility(row) ==
    \/ "InstanceFlexibility" \notin DOMAIN row
    \/ IsNa(row["InstanceFlexibility"])

\* The payload both purchase builders render once applied_scopes is settled:
\* the properties, reservedResourceProperties only for VirtualMachines, and the
\* sku/location envelope
PurchasePayload(row, applied_scopes) ==
    LET properties ==
            [reservedResourceType |-> row["reservedResourceType"],
             billingScopeId |-> BillingScopeId(row),
             term |-> row["term"],
             billingPlan |-> row["billingPlan"],
             quantity |-> N(PyInt(row["quantity"]).n),
             displayName |-> row["displayName"],
             appliedScopes |-> applied_scopes,
             appliedScopeType |-> row["appliedScopeType"],
             renew |-> Renew(row)]
    IN  [sku |-> [name |-> row["SKU-name"]],
         location |-> row["azure region"],
         properties |->
            IF IsVirtualMachines(row)
            THEN properties @@ ("reservedResourceProperties" :>
                                   [instanceFlexibility |-> row["InstanceFlexibility"]])
            ELSE properties]

\* The resource-type and quantity steps shared by both purchase builders
RenderPurchase(row, applied_scopes) ==
    IF IsVirtualMachines(row) /\ LacksInstanceFlexibility(row)
    THEN Raise("ValueError: InstanceFlexibility is required")
    ELSE IF ~PyInt(row["quantity"]).ok THEN Raise("ValueError: int()")
    ELSE Ok(PurchasePayload(row, applied_scopes))

\* One iteration of generate_api_payloads' loop
ApiPayload(row) ==
    IF ~({"appliedScopes", "appliedScopeType"} \subseteq DOMAIN row)
    THEN Raise("ValueError: Missing required column")
    ELSE IF IsNa(row["appliedScopeType"])
    THEN Raise("ValueError: Missing or empty appliedScopeType")
    ELSE LET scope_type == Lower(Strip(Str(row["appliedScopeType"])))
             applied_scopes_value ==
                IF IsNa(row["appliedScopes"]) THEN <<>>
                ELSE Strip(Str(row["appliedScopes"]))
         IN  IF scope_type \notin ScopeTypes
             THEN Raise("ValueError: Invalid appliedScopeType")
             ELSE IF scope_type = Lower(Single) /\ applied_scopes_value = <<>>
             THEN Raise("ValueError: appliedScopes is required")
             ELSE RenderPurchase(row,
                     IF scope_type = Lower(Single) THEN L(S(applied_scopes_value)) ELSE Null)

\* generate_api_payloads(file_path, reservation_order_id = None): the payloads of
\* all rows, or the first exception
RECURSIVE generate_api_payloads(_, _)
generate_api_payloads(rs, acc) ==
    IF rs = <<>> THEN Ok(acc)
    ELSE LET p == ApiPayload(Head(rs))
         IN  IF ~p.ok THEN p
             ELSE generate_api_payloads(Tail(rs),
                     Append(acc, [payload |-> p.val, reservation_order_id |-> Null]))

\* is_purchase_trigger_set(value)
is_purchase_trigger_set(value) ==
    IF IsNa(value) THEN FALSE ELSE Lower(Strip(Str(value))) \in Affirmative

\* is_purchase_confirmed(value)
is_purchase_confirmed(value) ==
    IF IsNa(value) THEN FALSE ELSE Lower(Strip(Str(value))) \in Affirmative

\* The gate's first check: TRUE when the row is skipped for its trigger
SkipsForTrigger(row) ==
    "Purchase Trigger" \in DOMAIN row /\ ~is_purchase_trigger_set(row["Purchase Trigger"])

\* A gate that takes a file without the confirmation column as unconfirmed
SkipsForConfirmationColumnRequired(row) ==
    \/ "Purchased Confirmed" \notin DOMAIN row
    \/ ~is_purchase_confirmed(row["Purchased Confirmed"])

\* The gate's second check: TRUE when the row is skipped for its confirmation
SkipsForConfirmation(row) ==
    "Purchased Confirmed" \in DOMAIN row /\ ~is_purchase_confirmed(row["Purchased Confirmed"])

\* The appliedScopes of generate_api_payloads_with_order_ids: row["appliedScopeType"]
\* is read only for a non-empty scope, and .lower() of a NaN cell (a float) raises
GateAppliedScopes(row) ==
    IF IsNa(row["appliedScopes"]) \/ IsEmptyString(row["appliedScopes"]) THEN Ok(Null)
    ELSE IF row["appliedScopeType"].t # "str" THEN Raise("AttributeError")
    ELSE IF Lower(row["appliedScopeType"].s) = Lower(Single)
         THEN Ok(L(row["appliedScopes"]))
         ELSE Ok(Null)

\* The rendering of an eligible row in generate_api_payloads_with_order_ids
GatePayload(row) ==
    LET a == GateAppliedScopes(row)
    IN  IF ~a.ok THEN a ELSE RenderPurchase(row, a.val)

\* A gate step that puts the newest payload first
GateStepNewestFirst(g, result) ==
    LET row == result.input_row
    IN  IF SkipsForTrigger(row)
        THEN [g EXCEPT !.skipped_no_trigger = @ + 1]
        ELSE IF SkipsForConfirmation(row)
        THEN [g EXCEPT !.skipped_no_confirmation = @ + 1]
        ELSE LET p == GatePayload(row)
             IN  IF ~p.ok THEN [g EXCEPT !.ok = FALSE, !.err = p.err]
                 ELSE [g EXCEPT !.payloads =
                          <<[payload |-> p.val,
                             reservation_order_id |-> result.reservation_order_id]>> \o @]

\* The gate's state after a row: its payloads and its two counters
GateStep(g, result) ==
    LET row == result.input_row
    IN  IF SkipsForTrigger(row)
        THEN [g EXCEPT !.skipped_no_trigger = @ + 1]
        ELSE IF SkipsForConfirmation(row)
        THEN [g EXCEPT !.skipped_no_confirmation = @ + 1]
        ELSE LET p == GatePayload(row)
             IN  IF ~p.ok THEN [g EXCEPT !.ok = FALSE, !.err = p.err]
                 ELSE [g EXCEPT !.payloads =
                          Append(@, [payload |-> p.val,
                                     reservation_order_id |-> result.reservation_order_id])]

\* generate_api_payloads_with_order_ids(calculation_results): the loop, ended by
\* the first exception
RECURSIVE generate_api_payloads_with_order_ids(_, _)
generate_api_payloads_with_order_ids(crs, g) ==
    IF crs = <<>> \/ ~g.ok THEN g
    ELSE generate_api_payloads_with_order_ids(Tail(crs), GateStep(g, Head(crs)))

GateStart == [ok |-> TRUE, err |-> "none", payloads |-> <<>>,
              skipped_no_trigger |-> 0, skipped_no_confirmation |-> 0]

----------------------------------------------------------------------------
(* The calculate endpoint and the purchase transport *)

\* The order id the provider assigns to the i-th calculate request
OrderId(i) == S(<<"o">> \o NatStr(i))

\* What requests.post can do for the i-th calculate request: raise, or return a
\* status and a body (json = FALSE: a body response.json() cannot decode)
CalculateResponses(i) ==
    {[kind |-> "exception", status |-> 0, json |-> FALSE, body |-> <<>>],
     [kind |-> "response", status |-> 200, json |-> TRUE,
      body |-> [properties |-> [reservationOrderId |-> OrderId(i)]]],
     [kind |-> "response", status |-> 200, json |-> TRUE, body |-> [properties |-> <<>>]],
     [kind |-> "response", status |-> 200, json |-> TRUE,
      body |-> [properties |-> [reservationOrderId |-> S(<<>>)]]],
     [kind |-> "response", status |-> 200, json |-> FALSE, body |-> <<>>],
     [kind |-> "response", status |-> 201, json |-> TRUE,
      body |-> [properties |-> [reservationOrderId |-> OrderId(i)]]],
     [kind |-> "response", status |-> 400, json |-> TRUE, body |-> [error |-> S(<<"x">>)]]}

\* A status test that takes every 2xx status
CalculateAccepts2xx(status) == 200 <= status /\ status < 300

\* response.status_code == 200
CalculateAccepts(status) == status = 200

\* A test for None alone, which lets an empty order id through
FalsyNoneOnly(v) == v.t = "null"

\* `not reservation_order_id`
Falsy(v) == v.t = "null" \/ IsEmptyString(v)

\* result.get('properties', {}).get('reservationOrderId')
ReservationOrderIdOf(body) == Get(Get(body, "properties", <<>>), "reservationOrderId", Null)

\* Lines 65-96 of calculate_reservation_order: the order id of a response, or the
\* exception the row ends with
CalculateOutcome(resp) ==
    IF resp.kind = "exception" THEN Raise("Exception: Failed to calculate reservation")
    ELSE IF ~CalculateAccepts(resp.status) THEN Raise("Exception: Failed to calculate reservation")
    ELSE IF ~resp.json THEN Raise("Exception: Failed to calculate reservation")
    ELSE IF Falsy(ReservationOrderIdOf(resp.body))
         THEN Raise("ValueError: No reservation order ID returned")
         ELSE Ok(ReservationOrderIdOf(resp.body))

\* What pipeline.run can do for a purchase request: raise, or return a status and
\* a content (empty, a JSON text, a text that is no JSON, bytes that are no UTF-8)
PurchaseResponses ==
    {[kind |-> "exception", status |-> 0, content |-> "empty"],
     [kind |-> "response", status |-> 200, content |-> "json"],
     [kind |-> "response", status |-> 204, content |-> "empty"],
     [kind |-> "response", status |-> 200, content |-> "text"],
     [kind |-> "response", status |-> 200, content |-> "bad_utf8"],
     [kind |-> "response", status |-> 400, content |-> "json"]}

\* A success test that takes the status 200 alone
IsSuccessStatusOkOnly(status) == status = 200

\* 200 <= status_code < 300
IsSuccessStatus(status) == 200 <= status /\ status < 300

\* The dictionary of the except branch of execute_purchase_request
FailedResult(reservation_order_id, payload, e) ==
    [reservation_order_id |-> reservation_order_id,
     status_code |-> Null,
     success |-> FALSE,
     error |-> e,
     url |-> reservation_order_id,
     request_payload |-> payload,
     response_body |-> "{}"]

\* execute_purchase_request(reservation_order_id, payload): never raises.  The
\* url is modelled by the order id it embeds.  A content that is no UTF-8 makes
\* .decode('utf-8') raise UnicodeDecodeError, which the inner handler (for
\* JSONDecodeError) does not catch and the outer one does.
execute_purchase_request(reservation_order_id, payload, resp) ==
    IF resp.kind = "exception"
    THEN FailedResult(reservation_order_id, payload, "transport")
    ELSE IF resp.content = "bad_utf8"
    THEN FailedResult(reservation_order_id, payload, "UnicodeDecodeError")
    ELSE [reservation_order_id |-> reservation_order_id,
          status_code |-> N(resp.status),
          success |-> IsSuccessStatus(resp.status),
          url |-> reservation_order_id,
          request_payload |-> payload,
          response_body |-> CASE resp.content = "empty" -> "{}"
                              [] resp.content = "json"  -> "json"
                              [] OTHER                  -> "raw_content"]

\* delay_between_requests, the default execute_purchase_api_calls leaves in place
DelayBetweenRequests == 1

\* A delay test that does not look at the index of the call
SleepsAfterEveryCall(i, n) == DelayBetweenRequests > 0

\* `i < len(purchase_payloads) and delay_between_requests > 0`, i the 1-based
\* index of the call just made
SleepsAfter(i, n) == i < n /\ DelayBetweenRequests > 0

\* Where the loop goes after call i of n: to the sleep, to the next iteration,
\* or, after the last entry, out of the loop to the return of the results,
\* which main saves
AfterCall(i, n) ==
    IF SleepsAfter(i, n) THEN "sleep" ELSE IF i < n THEN "purchase" ELSE "saved"

\* .strip().lower() of the operator's answer to a yes/no prompt
Answers == {<<" ","Y"," ">>, <<"n","o">>, <<"N">>, <<"m","a","y","b","e">>}
\* A prompt that takes every answer but a no for a yes
AnswersYesUnlessNo(a) == Lower(Strip(a)) \notin {<<"n","o">>, <<"n">>}

\* confirmation in ['yes', 'y']
AnswersYes(a) == Lower(Strip(a)) \in {Yes, <<"y">>}
AnswersNo(a) == Lower(Strip(a)) \in {<<"n","o">>, <<"n">>}

----------------------------------------------------------------------------
(* The run *)

NoError == [where |-> "none", what |-> "none"]

Init ==
    /\ entry \in {"main", "generate_api_payloads"}
    /\ \E cols \in ColumnChoices, n \in 0..MaxRows :
          \E rs \in [1..n -> RowSamples] :
              rows = [i \in 1..n |-> Restrict(rs[i], cols)]
    /\ pc = "start"
    /\ access_token = "none"
    /\ calculate_requests = <<>>
    /\ calculate_responses = <<>>
    /\ calculation_results = <<>>
    /\ purchase_payloads = <<>>
    /\ skipped_no_trigger = 0
    /\ skipped_no_confirmation = 0
    /\ payloads_confirmation = Null
    /\ execution_confirmation = Null
    /\ purchase_requests = <<>>
    /\ purchase_responses = <<>>
    /\ results = <<>>
    /\ sleeps = 0
    /\ payloads = <<>>
    /\ error = NoError

\* The run ends with an exception raised in function `where`: main prints it and
\* returns
Finish(where, what) == pc' = "done" /\ error' = [where |-> where, what |-> what]

\* A calculation that catches the exception of a row and returns the results it
\* has so far
CalculateFailsReturnsPartial(what) ==
    /\ pc' = "confirm_payloads"
    /\ error' = [where |-> "calculate_reservation_order", what |-> what]

\* calculate_reservation_order, lines 91-96: the exception of a row leaves the
\* loop and the function
CalculateFails(what) == Finish("calculate_reservation_order", what)

\* main, lines 183-193: get_azure_access_token returns a token, returns an empty
\* string (the CLI printed nothing), or raises
GetAccessToken ==
    /\ entry = "main" /\ pc = "start"
    /\ \E got \in {"token", "empty", "raise"} :
          IF got = "raise"
          THEN Finish("get_azure_access_token", "Exception") /\ UNCHANGED access_token
          ELSE access_token' = got /\ pc' = "calculate_enter" /\ UNCHANGED error
    /\ UNCHANGED <<entry, rows, payloads_confirmation, execution_confirmation, calculate_requests, calculate_responses, calculation_results,
                   purchase_payloads,
                   skipped_no_trigger, skipped_no_confirmation, purchase_requests, purchase_responses, results, sleeps, payloads>>

\* calculate_reservation_order, lines 54-60: `if not access_token: raise`
CalculateEnter ==
    /\ pc = "calculate_enter"
    /\ IF access_token = "token"
       THEN pc' = "calculate" /\ UNCHANGED error
       ELSE Finish("calculate_reservation_order", "ValueError: access_token is required")
    /\ UNCHANGED <<entry, rows, payloads_confirmation, execution_confirmation, access_token,
                   calculate_requests, calculate_responses,
                   calculation_results,
                   purchase_payloads, skipped_no_trigger, skipped_no_confirmation,
                   purchase_requests, purchase_responses, results, sleeps, payloads>>

\* calculate_reservation_order, lines 62-112: one iteration of the loop
CalculateRow ==
    /\ pc = "calculate"
    /\ Len(calculation_results) < Len(rows)
    /\ LET i == Len(calculation_results) + 1
           row == rows[i]
           p == build_calculate_payload(row)
       IN  IF ~p.ok
           THEN /\ CalculateFails(p.err)
                /\ UNCHANGED <<calculate_requests, calculate_responses, calculation_results>>
           ELSE \E resp \in CalculateResponses(i) :
                   LET o == CalculateOutcome(resp)
                   IN  /\ calculate_requests' = Append(calculate_requests, p.val)
                       /\ calculate_responses' = Append(calculate_responses, resp)
                       /\ IF o.ok
                          THEN /\ calculation_results' =
                                     Append(calculation_results,
                                            [input_row |-> row,
                                             calculate_request |-> p.val,
                                             calculate_response |-> resp.body,
                                             reservation_order_id |-> o.val])
                               /\ UNCHANGED <<pc, error>>
                          ELSE CalculateFails(o.err) /\ UNCHANGED calculation_results
    /\ UNCHANGED <<entry, rows, payloads_confirmation, execution_confirmation, access_token, purchase_payloads, skipped_no_trigger,
                   skipped_no_confirmation, purchase_requests, purchase_responses, results, sleeps, payloads>>

\* calculate_reservation_order, lines 114-117, and main, lines 198-213: the loop
\* is over, the results are saved and shown
CalculateReturn ==
    /\ pc = "calculate"
    /\ Len(calculation_results) = Len(rows)
    /\ pc' = "confirm_payloads"
    /\ UNCHANGED <<entry, rows, payloads_confirmation, execution_confirmation, access_token,
                   calculate_requests, calculate_responses,
                   calculation_results,
                   purchase_payloads, skipped_no_trigger, skipped_no_confirmation,
                   purchase_requests, purchase_responses, results, sleeps, payloads, error>>

\* get_user_confirmation: asks again until the answer is a yes or a no
get_user_confirmation ==
    /\ pc = "confirm_payloads"
    /\ \E a \in Answers :
          /\ payloads_confirmation' = S(a)
          /\ pc' = IF AnswersYes(a) THEN "generate"
                   ELSE IF AnswersNo(a) THEN "done" ELSE pc
    /\ UNCHANGED <<entry, rows, execution_confirmation, access_token,
                   calculate_requests, calculate_responses,
                   calculation_results,
                   purchase_payloads, skipped_no_trigger, skipped_no_confirmation,
                   purchase_requests, purchase_responses, results, sleeps, payloads, error>>

\* main, line 224: the gate, as one call; an exception leaves nothing returned
GeneratePurchasePayloads ==
    /\ pc = "generate"
    /\ LET g == generate_api_payloads_with_order_ids(calculation_results, GateStart)
       IN  IF g.ok
           THEN /\ purchase_payloads' = g.payloads
                /\ skipped_no_trigger' = g.skipped_no_trigger
                /\ skipped_no_confirmation' = g.skipped_no_confirmation
                /\ pc' = "confirm_execution"
                /\ UNCHANGED error
           ELSE /\ Finish("generate_api_payloads_with_order_ids", g.err)
                /\ UNCHANGED <<purchase_payloads, skipped_no_trigger, skipped_no_confirmation>>
    /\ UNCHANGED <<entry, rows, payloads_confirmation, execution_confirmation, access_token,
                   calculate_requests, calculate_responses,
                   calculation_results,
                   purchase_requests, purchase_responses, results, sleeps, payloads>>

\* get_api_execution_confirmation
get_api_execution_confirmation ==
    /\ pc = "confirm_execution"
    /\ \E a \in Answers :
          /\ execution_confirmation' = S(a)
          /\ pc' = IF AnswersYes(a) THEN "execute"
                   ELSE IF AnswersNo(a) THEN "done" ELSE pc
    /\ UNCHANGED <<entry, rows, payloads_confirmation, access_token,
                   calculate_requests, calculate_responses,
                   calculation_results,
                   purchase_payloads, skipped_no_trigger, skipped_no_confirmation,
                   purchase_requests, purchase_responses, results, sleeps, payloads, error>>

\* main, lines 237-243 and 251-254: the import of azure_purchase_api and the
\* client's construction, which fail when the SDK is not installed
ExecuteEnter ==
    /\ pc = "execute"
    /\ \E imported \in BOOLEAN :
          IF imported THEN pc' = "purchase" /\ UNCHANGED error
          ELSE Finish("execute_purchase_api_calls", "ImportError")
    /\ UNCHANGED <<entry, rows, payloads_confirmation, execution_confirmation, access_token,
                   calculate_requests, calculate_responses,
                   calculation_results,
                   purchase_payloads, skipped_no_trigger, skipped_no_confirmation,
                   purchase_requests, purchase_responses, results, sleeps, payloads>>

\* A batch loop that sends the request of a failed call a second time
PurchaseCallResendsOnFailure ==
    /\ pc = "purchase"
    /\ Len(results) < Len(purchase_payloads)
    /\ LET i == Len(results) + 1
           payload_info == purchase_payloads[i]
           request == [url |-> payload_info.reservation_order_id, data |-> payload_info.payload]
       IN  \E first, resp \in PurchaseResponses :
              LET resent == ~execute_purchase_request(payload_info.reservation_order_id,
                                                      payload_info.payload, first).success
              IN  /\ purchase_requests' = IF resent THEN purchase_requests \o <<request, request>>
                                          ELSE Append(purchase_requests, request)
                  /\ purchase_responses' = IF resent THEN purchase_responses \o <<first, resp>>
                                           ELSE Append(purchase_responses, first)
                  /\ results' = Append(results,
                                       execute_purchase_request(payload_info.reservation_order_id,
                                                                payload_info.payload,
                                                                IF resent THEN resp ELSE first))
                  /\ pc' = AfterCall(i, Len(purchase_payloads))
    /\ UNCHANGED <<entry, rows, payloads_confirmation, execution_confirmation, access_token,
                   calculate_requests, calculate_responses,
                   calculation_results, purchase_payloads, skipped_no_trigger,
                   skipped_no_confirmation, sleeps, payloads, error>>

\* A batch loop that stops at the first failed call
PurchaseCallStopsOnFailure ==
    /\ pc = "purchase"
    /\ Len(results) < Len(purchase_payloads)
    /\ LET i == Len(results) + 1
           payload_info == purchase_payloads[i]
       IN  \E resp \in PurchaseResponses :
              LET result == execute_purchase_request(payload_info.reservation_order_id,
                                                     payload_info.payload, resp)
              IN  /\ purchase_requests' = Append(purchase_requests,
                                                      [url |-> payload_info.reservation_order_id,
                                                       data |-> payload_info.payload])
                  /\ purchase_responses' = Append(purchase_responses, resp)
                  /\ results' = Append(results, result)
                  /\ pc' = IF ~result.success THEN "saved"
                           ELSE AfterCall(i, Len(purchase_payloads))
    /\ UNCHANGED <<entry, rows, payloads_confirmation, execution_confirmation, access_token,
                   calculate_requests, calculate_responses,
                   calculation_results, purchase_payloads, skipped_no_trigger,
                   skipped_no_confirmation, sleeps, payloads, error>>

\* execute_batch_purchases, lines 142-161: one iteration up to the delay test;
\* the iteration of the last entry goes on to the return, lines 165-173
PurchaseCall ==
    /\ pc = "purchase"
    /\ Len(results) < Len(purchase_payloads)
    /\ LET i == Len(results) + 1
           payload_info == purchase_payloads[i]
       IN  \E resp \in PurchaseResponses :
              /\ purchase_requests' = Append(purchase_requests,
                                                  [url |-> payload_info.reservation_order_id,
                                                   data |-> payload_info.payload])
              /\ purchase_responses' = Append(purchase_responses, resp)
              /\ results' = Append(results,
                                   execute_purchase_request(payload_info.reservation_order_id,
                                                            payload_info.payload, resp))
              /\ pc' = AfterCall(i, Len(purchase_payloads))
    /\ UNCHANGED <<entry, rows, payloads_confirmation, execution_confirmation, access_token,
                   calculate_requests, calculate_responses,
                   calculation_results,
                   purchase_payloads, skipped_no_trigger, skipped_no_confirmation,
                   sleeps, payloads, error>>

\* execute_batch_purchases, lines 162-163: time.sleep(delay_between_requests)
Sleep ==
    /\ pc = "sleep"
    /\ sleeps' = sleeps + 1
    /\ pc' = "purchase"
    /\ UNCHANGED <<entry, rows, payloads_confirmation, execution_confirmation, access_token,
                   calculate_requests, calculate_responses,
                   calculation_results,
                   purchase_payloads, skipped_no_trigger, skipped_no_confirmation,
                   purchase_requests, purchase_responses, results, payloads, error>>

\* execute_batch_purchases, lines 165-173, and main, lines 245-249: the loop
\* has nothing (more) to iterate, the batch returns its results and main saves
\* them
BatchReturn ==
    /\ pc = "purchase"
    /\ Len(results) = Len(purchase_payloads)
    /\ pc' = "saved"
    /\ UNCHANGED <<entry, rows, payloads_confirmation, execution_confirmation, access_token,
                   calculate_requests, calculate_responses,
                   calculation_results,
                   purchase_payloads, skipped_no_trigger, skipped_no_confirmation,
                   purchase_requests, purchase_responses, results, sleeps, payloads, error>>

\* generate_api_payloads(file_path), run on the file on its own
GenerateApiPayloads ==
    /\ entry = "generate_api_payloads" /\ pc = "start"
    /\ LET r == generate_api_payloads(rows, <<>>)
       IN  IF r.ok THEN payloads' = r.val /\ pc' = "done" /\ UNCHANGED error
           ELSE Finish("generate_api_payloads", r.err) /\ UNCHANGED payloads
    /\ UNCHANGED <<entry, rows, payloads_confirmation, execution_confirmation, access_token,
                   calculate_requests, calculate_responses,
                   calculation_results,
                   purchase_payloads, skipped_no_trigger, skipped_no_confirmation,
                   purchase_requests, purchase_responses, results, sleeps>>

Next ==
    \/ GetAccessToken
    \/ CalculateEnter
    \/ CalculateRow
    \/ CalculateReturn
    \/ get_user_confirmation
    \/ GeneratePurchasePayloads
    \/ get_api_execution_confirmation
    \/ ExecuteEnter
    \/ PurchaseCall
    \/ Sleep
    \/ BatchReturn
    \/ GenerateApiPayloads

Spec == Init /\ [][Next]_vars

----------------------------------------------------------------------------
(* Properties *)

\* The positions at which a function of the run has returned
GateReturned == pc = "confirm_execution"
GateRaised == pc = "done" /\ error.where = "generate_api_payloads_with_order_ids"
CalculateRaised == pc = "done" /\ error.where = "calculate_reservation_order"
BatchReturned == pc = "saved"

\* Calculation result i is the one purchase payload k was rendered from: the
\* provider's order ids differ from row to row
FromResult(k, i) ==
    purchase_payloads[k].reservation_order_id = calculation_results[i].reservation_order_id

\* Calculation result i has a purchase payload
Eligible(i) == \E k \in 1..Len(purchase_payloads) : FromResult(k, i)

\* A cell that reads, trimmed and lower-cased, as one of "1", "y", "yes"
IsAffirmative(row, column) ==
    /\ column \in DOMAIN row
    /\ ~IsNa(row[column])
    /\ Lower(Strip(Str(row[column]))) \in {<<"1">>, <<"y">>, <<"y","e","s">>}

\* C1: a purchase payload is produced only for a row whose 'Purchase Trigger',
\* trimmed and lower-cased, is "1", "y" or "yes"; a row without the column, or
\* with a blank or any other value in it, gets none.
C1_TriggerRequired ==
    GateReturned =>
        \A i \in 1..Len(calculation_results) :
            Eligible(i) => IsAffirmative(calculation_results[i].input_row, "Purchase Trigger")

\* The row of result i passed the gate's trigger check
PassedTrigger(i) == ~SkipsForTrigger(calculation_results[i].input_row)

\* C2: for a row that passed the trigger check, the 'Purchased Confirmed' check
\* applies only when the column exists: without the column the row is eligible,
\* with the column and a value that is not "1", "y" or "yes" it is not.
C2_ConfirmationOnlyWhenPresent ==
    GateReturned =>
        \A i \in 1..Len(calculation_results) :
            LET row == calculation_results[i].input_row
            IN  PassedTrigger(i) =>
                    /\ "Purchased Confirmed" \notin DOMAIN row => Eligible(i)
                    /\ ("Purchased Confirmed" \in DOMAIN row
                            /\ ~IsAffirmative(row, "Purchased Confirmed")) => ~Eligible(i)
                    /\ IsAffirmative(row, "Purchased Confirmed") => Eligible(i)

\* A file without the 'Purchased Confirmed' column whose row passed the trigger
\* check and got a payload, beside a row the trigger check skipped
C2_Witness ==
    /\ GateReturned
    /\ skipped_no_trigger >= 1
    /\ \E i \in 1..Len(calculation_results) :
          /\ "Purchased Confirmed" \notin DOMAIN calculation_results[i].input_row
          /\ "Purchase Trigger" \in DOMAIN calculation_results[i].input_row
          /\ Eligible(i)

\* The gate's three tallies add up to the rows it was given
TalliesAddUp ==
    Len(purchase_payloads) + skipped_no_trigger + skipped_no_confirmation
        = Len(calculation_results)

\* C3 as stated: for every list passed to the gate, every row ends as eligible,
\* skipped_no_trigger or skipped_no_confirmation, and the three add up to the
\* number of rows.
C3_EveryCallTallies == (GateReturned \/ GateRaised) => TalliesAddUp

\* What the gate does keep of it: whenever it returns, the three tallies add up
\* to the number of rows and each payload comes from a row of its own; a gate
\* that raises (an eligible row that cannot be rendered) returns no tally at all.
ReturnedCallTallies ==
    /\ GateReturned =>
          /\ TalliesAddUp
          /\ \A k \in 1..Len(purchase_payloads) :
                \E i \in 1..Len(calculation_results) : FromResult(k, i)
          /\ \A k, m \in 1..Len(purchase_payloads) :
                k # m => purchase_payloads[k].reservation_order_id
                            # purchase_payloads[m].reservation_order_id
    /\ GateRaised =>
          /\ purchase_payloads = <<>>
          /\ skipped_no_trigger = 0 /\ skipped_no_confirmation = 0
          /\ calculation_results # <<>>

\* C4: when calculation fails for a row, the run ends at that row (no calculate
\* request for a later row) and no purchase call is made for any row; a purchase
\* call is only ever made after every row was calculated.
C4_NoPurchaseAfterFailedCalculation ==
    /\ error.where = "calculate_reservation_order" =>
          /\ pc = "done"
          /\ results = <<>>
          /\ purchase_payloads = <<>>
          /\ Len(calculate_requests) <= Len(calculation_results) + 1
    /\ results # <<>> =>
          /\ Len(calculation_results) = Len(rows)
          /\ \A i \in 1..Len(rows) : CalculateOutcome(calculate_responses[i]).ok

\* The calculation of a row failed after an earlier row's had succeeded
C4_Witness ==
    /\ CalculateRaised
    /\ Len(calculation_results) >= 1
    /\ Len(calculate_requests) = Len(calculation_results) + 1

\* Result k is the record of the call made for entry k
ReflectsEntry(k) ==
    /\ results[k].reservation_order_id = purchase_payloads[k].reservation_order_id
    /\ results[k].request_payload = purchase_payloads[k].payload
    /\ results[k].success <=>
          /\ results[k].status_code # Null
          /\ 200 <= results[k].status_code.n /\ results[k].status_code.n < 300

\* C5: the batch keeps going after a failed call: it never raises, it can always
\* take its next step until every entry was called, and it returns exactly one
\* result per entry, in order, each with its own entry's order id, payload and
\* outcome.
C5_ContinueOnError ==
    /\ Len(results) <= Len(purchase_payloads)
    /\ \A k \in 1..Len(results) : ReflectsEntry(k)
    /\ pc \in {"purchase", "sleep", "saved"} => error = NoError
    /\ (pc = "purchase" /\ Len(results) < Len(purchase_payloads)) => ENABLED PurchaseCall
    /\ pc = "sleep" => ENABLED Sleep
    /\ BatchReturned => Len(results) = Len(purchase_payloads)

\* The batch returned after a failed first call and a successful second one
C5_Witness ==
    /\ BatchReturned
    /\ Len(results) = 2
    /\ ~results[1].success
    /\ results[2].success

\* A 200 response whose JSON carries no reservation order id, or an empty one
LacksOrderId(resp) ==
    /\ resp.kind = "response" /\ resp.status = 200 /\ resp.json
    /\ \/ "properties" \notin DOMAIN resp.body
       \/ "reservationOrderId" \notin DOMAIN resp.body["properties"]
       \/ resp.body["properties"]["reservationOrderId"] = S(<<>>)

\* C6: a successful calculate response without a reservation order id makes
\* calculate_reservation_order raise; the row gets no calculation result and no
\* purchase payload, and no result or payload ever carries an empty order id.
C6_MissingOrderIdIsFatal ==
    /\ \A i \in 1..Len(calculate_responses) :
          LacksOrderId(calculate_responses[i]) =>
              /\ pc = "done"
              /\ error = [where |-> "calculate_reservation_order",
                          what |-> "ValueError: No reservation order ID returned"]
              /\ i = Len(calculate_responses)
              /\ Len(calculation_results) = i - 1
              /\ purchase_payloads = <<>>
              /\ results = <<>>
    /\ \A i \in 1..Len(calculation_results) :
          /\ calculation_results[i].reservation_order_id.t = "str"
          /\ calculation_results[i].reservation_order_id.s # <<>>
    /\ \A k \in 1..Len(purchase_payloads) :
          /\ purchase_payloads[k].reservation_order_id.t = "str"
          /\ purchase_payloads[k].reservation_order_id.s # <<>>

\* The second row's response came without an order id
C6_Witness ==
    /\ Len(calculate_responses) = 2
    /\ LacksOrderId(calculate_responses[2])
    /\ Len(calculation_results) = 1

\* The payloads rendered in a state, each with the row it was rendered from
RenderedPayloads ==
    {<<rows[i], calculate_requests[i]>> : i \in 1..Len(calculate_requests)}
    \cup {<<rows[i], payloads[i].payload>> : i \in 1..Len(payloads)}
    \cup {<<calculation_results[i].input_row, purchase_payloads[k].payload>> :
            <<i, k>> \in {ik \in (1..Len(calculation_results)) \X (1..Len(purchase_payloads)) :
                            FromResult(ik[2], ik[1])}}

\* The row's applied-scope-type, trimmed and lower-cased
ScopeTypeOf(row) ==
    IF row["appliedScopeType"].t = "str" THEN Lower(Strip(row["appliedScopeType"].s)) ELSE <<>>

\* The row supplies an applied-scopes value
HasAppliedScopes(row) ==
    row["appliedScopes"].t = "str" /\ Strip(row["appliedScopes"].s) # <<>>

\* C7: in every rendered payload, calculate or purchase, a Single row's
\* appliedScopes is the one-element list of its input value, and a Shared or
\* ManagementGroup row's appliedScopes is null whatever the column holds.
C7_AppliedScopesFollowScopeType ==
    \A rp \in RenderedPayloads :
        LET row == rp[1]
            rendered == rp[2].properties.appliedScopes
        IN  /\ (ScopeTypeOf(row) = <<"s","i","n","g","l","e">> /\ HasAppliedScopes(row))
                  => rendered = [t |-> "list", items |-> <<row["appliedScopes"]>>]
            /\ ScopeTypeOf(row) \in {<<"s","h","a","r","e","d">>,
                                     <<"m","a","n","a","g","e","m","e","n","t","g","r","o","u","p">>}
                  => rendered = Null

\* The row's resource type is VirtualMachines, whatever its case
IsVmRow(row) ==
    /\ row["reservedResourceType"].t = "str"
    /\ Lower(Strip(row["reservedResourceType"].s))
          = <<"v","i","r","t","u","a","l","m","a","c","h","i","n","e","s">>

\* C8: in every rendered payload, calculate or purchase, a VirtualMachines row
\* has reservedResourceProperties.instanceFlexibility equal to its input value,
\* and a row of any other resource type has no reservedResourceProperties.
C8_ResourcePropertiesOnlyForVm ==
    \A rp \in RenderedPayloads :
        LET row == rp[1]
            properties == rp[2].properties
        IN  IF IsVmRow(row)
            THEN /\ "reservedResourceProperties" \in DOMAIN properties
                 /\ properties["reservedResourceProperties"].instanceFlexibility
                        = row["InstanceFlexibility"]
            ELSE "reservedResourceProperties" \notin DOMAIN properties

\* The row's applied-scope-type is Single, Shared or ManagementGroup
HasValidScopeType(row) ==
    ScopeTypeOf(row) \in {<<"s","i","n","g","l","e">>, <<"s","h","a","r","e","d">>,
                          <<"m","a","n","a","g","e","m","e","n","t","g","r","o","u","p">>}

\* C9: a row whose applied-scope-type is outside the enumeration is rejected:
\* no payload is rendered for it, no calculate request is sent for it, and the
\* run it is part of makes no purchase call.
C9_InvalidScopeTypeIsFatal ==
    \A i \in 1..Len(rows) :
        ~HasValidScopeType(rows[i]) =>
            /\ Len(calculate_requests) < i
            /\ Len(payloads) < i
            /\ results = <<>>

\* C10: every rendered payload has quantity > 0: a row whose quantity is zero,
\* negative or no number is rejected before a payload is rendered for it.
C10_QuantityPositive ==
    \A rp \in RenderedPayloads : rp[2].properties.quantity.n > 0

\* The purchase-mode payloads rendered in a state, each with the row it was
\* rendered from
PurchaseRendered ==
    {<<rows[i], payloads[i].payload>> : i \in 1..Len(payloads)}
    \cup {<<calculation_results[i].input_row, purchase_payloads[k].payload>> :
            <<i, k>> \in {ik \in (1..Len(calculation_results)) \X (1..Len(purchase_payloads)) :
                            FromResult(ik[2], ik[1])}}

\* The row's renew column, trimmed and lower-cased, reads "yes"
RenewsYes(row) ==
    row["renew"].t = "str" /\ Lower(Strip(row["renew"].s)) = <<"y","e","s">>

\* C11: every purchase-mode payload carries properties.renew, true exactly
\* when the row's renew column, trimmed and compared case-insensitively, is
\* "yes"; no calculate payload carries a renew field.
C11_RenewOnlyInPurchasePayloads ==
    /\ \A i \in 1..Len(payloads) :
          /\ "renew" \in DOMAIN payloads[i].payload.properties
          /\ payloads[i].payload.properties["renew"] = B(RenewsYes(rows[i]))
    /\ \A k \in 1..Len(purchase_payloads) :
          /\ "renew" \in DOMAIN purchase_payloads[k].payload.properties
          /\ \E i \in 1..Len(calculation_results) : FromResult(k, i)
          /\ \A i \in 1..Len(calculation_results) :
                FromResult(k, i) =>
                    purchase_payloads[k].payload.properties["renew"]
                        = B(RenewsYes(calculation_results[i].input_row))
    /\ \A i \in 1..Len(calculate_requests) :
          "renew" \notin DOMAIN calculate_requests[i].properties

\* A run whose gate rendered a renewing payload from a padded, upper-case
\* "yes" beside a non-renewing one, after both rows were sent for calculation
C11_Witness ==
    /\ Len(calculate_requests) = 2
    /\ \E rp \in PurchaseRendered :
          /\ rp[1]["renew"] = S(<<" ","Y","E","S"," ">>)
          /\ rp[2].properties["renew"] = B(TRUE)
    /\ \E rp \in PurchaseRendered :
          /\ ~RenewsYes(rp[1])
          /\ rp[2].properties["renew"] = B(FALSE)

\* The rows the gate was given that got no purchase payload
Excluded == {i \in 1..Len(calculation_results) : ~Eligible(i)}

\* Check (1): the row's 'Purchase Trigger' is not affirmative, absent included
FailsTriggerCheck(i) ==
    ~IsAffirmative(calculation_results[i].input_row, "Purchase Trigger")

\* Check (2): the row has a 'Purchased Confirmed' cell that is not affirmative
FailsConfirmationCheck(i) ==
    /\ "Purchased Confirmed" \in DOMAIN calculation_results[i].input_row
    /\ ~IsAffirmative(calculation_results[i].input_row, "Purchased Confirmed")

\* C12: the gate counts each excluded row once, under the first check it
\* fails: skipped_no_trigger counts the excluded rows failing the trigger
\* check, whatever their confirmation, and skipped_no_confirmation the rows
\* that pass the trigger check and fail the confirmation check.
C12_CountedUnderFirstFailingCheck ==
    GateReturned =>
        /\ skipped_no_trigger
              = Cardinality({i \in Excluded : FailsTriggerCheck(i)})
        /\ skipped_no_confirmation
              = Cardinality({i \in Excluded : ~FailsTriggerCheck(i) /\ FailsConfirmationCheck(i)})

\* The same count for a file that has the 'Purchase Trigger' column
CountedUnderFirstFailingCheckWithTriggerColumn ==
    (GateReturned /\ \A i \in 1..Len(rows) : "Purchase Trigger" \in DOMAIN rows[i])
        => /\ skipped_no_trigger
                 = Cardinality({i \in Excluded : FailsTriggerCheck(i)})
           /\ skipped_no_confirmation
                 = Cardinality({i \in Excluded : ~FailsTriggerCheck(i) /\ FailsConfirmationCheck(i)})

\* What pipeline.run did for purchase call k: a transport error, a status
\* outside 200..299, a body that is text but no JSON, a body that is no UTF-8
TransportError(k) == purchase_responses[k].kind = "exception"
Non2xx(k) ==
    /\ purchase_responses[k].kind = "response"
    /\ ~(purchase_responses[k].status \in 200..299)
NonJsonText(k) ==
    purchase_responses[k].kind = "response" /\ purchase_responses[k].content = "text"
Undecodable(k) ==
    purchase_responses[k].kind = "response" /\ purchase_responses[k].content = "bad_utf8"

\* C13 as stated: the result of a purchase call has success = false when the
\* call met a transport error (the status code is then None), a non-2xx
\* response or a body that is no JSON, and success = true only otherwise.
C13_SuccessOnlyForUnfailedCall ==
    \A k \in 1..Len(results) :
        /\ results[k].success
              <=> ~(TransportError(k) \/ Non2xx(k) \/ NonJsonText(k) \/ Undecodable(k))
        /\ TransportError(k) => results[k].status_code = Null

\* C13, amended: success = false for a transport error, a non-2xx response and
\* a body that is no UTF-8 (the status code is None for the first and the
\* last); a 2xx response whose body is text but no JSON has success = true,
\* with the text kept as raw content; success = true only for a 2xx response
\* whose body is empty, JSON or such a text.
C13_SuccessFollowsStatus ==
    \A k \in 1..Len(results) :
        /\ results[k].success
              <=> ~(TransportError(k) \/ Non2xx(k) \/ Undecodable(k))
        /\ (TransportError(k) \/ Undecodable(k)) => results[k].status_code = Null
        /\ (NonJsonText(k) /\ ~Non2xx(k))
              => results[k].success /\ results[k].response_body = "raw_content"
        /\ ~(TransportError(k) \/ Undecodable(k))
              => results[k].status_code = N(purchase_responses[k].status)

\* A batch with a 2xx call whose body is no JSON, recorded as a success,
\* beside a 204 with an empty body
C13_Witness ==
    /\ Len(results) = 2
    /\ NonJsonText(1) /\ ~Non2xx(1) /\ results[1].success
    /\ purchase_responses[2].status = 204 /\ results[2].success

\* The response is JSON with a non-empty properties.reservationOrderId
CarriesOrderId(resp) ==
    /\ resp.kind = "response" /\ resp.json
    /\ "properties" \in DOMAIN resp.body
    /\ "reservationOrderId" \in DOMAIN resp.body["properties"]
    /\ resp.body["properties"]["reservationOrderId"] # S(<<>>)

\* The response to row i was accepted: the row has a calculation result with
\* the order id of the response
AcceptedAt(i) ==
    /\ i <= Len(calculation_results)
    /\ calculation_results[i].reservation_order_id
          = calculate_responses[i].body["properties"]["reservationOrderId"]

\* calculate_reservation_order raised at row i
RaisedAt(i) ==
    /\ CalculateRaised
    /\ i = Len(calculate_responses)
    /\ Len(calculation_results) = i - 1

IsSingleWithoutScopes(row) ==
    ScopeTypeOf(row) = <<"s","i","n","g","l","e">> /\ ~HasAppliedScopes(row)

\* C15: a Single row whose applied-scopes is empty or missing is rejected in
\* every path that renders a payload, calculate and purchase: no payload is
\* rendered for it, and no payload with appliedScopes null and
\* appliedScopeType Single is rendered or sent.
C15_SingleRequiresAppliedScopes ==
    /\ \A rp \in RenderedPayloads :
          /\ ~IsSingleWithoutScopes(rp[1])
          /\ ~(ScopeTypeOf(rp[1]) = <<"s","i","n","g","l","e">>
                  /\ rp[2].properties.appliedScopes = Null)
    /\ \A k \in 1..Len(purchase_requests) :
          LET properties == purchase_requests[k].data.properties
          IN  ~(properties.appliedScopes = Null
                  /\ properties.appliedScopeType.t = "str"
                  /\ Lower(Strip(properties.appliedScopeType.s)) = <<"s","i","n","g","l","e">>)

\* The rule of C15 for generate_api_payloads alone
GenerateApiPayloadsRejectsSingleWithoutScopes ==
    \A i \in 1..Len(payloads) :
        /\ ~IsSingleWithoutScopes(rows[i])
        /\ ~(ScopeTypeOf(rows[i]) = <<"s","i","n","g","l","e">>
                /\ payloads[i].payload.properties.appliedScopes = Null)

\* A purchase request sent with appliedScopes null for a Single row
SingleWithoutScopesPurchased ==
    \E k \in 1..Len(purchase_requests) :
        LET properties == purchase_requests[k].data.properties
        IN  /\ properties.appliedScopes = Null
            /\ properties.appliedScopeType = S(Single)

\* The payload was rendered from the fields of the row
RenderedFrom(payload, row) ==
    /\ payload.sku.name = row["SKU-name"]
    /\ payload.properties.displayName = row["displayName"]
    /\ payload.properties.appliedScopeType = row["appliedScopeType"]
    /\ payload.properties.reservedResourceType = row["reservedResourceType"]

\* The calculation result purchase payload k carries the order id of
ResultOf(k) == CHOOSE i \in 1..Len(calculation_results) : FromResult(k, i)

\* C16: correlation is kept through the run: calculation result i is that of
\* input row i, with the order id of the response to row i; the purchase
\* payloads are the eligible results in their relative order, each with the
\* order id calculated for the row its payload is rendered from; purchase call
\* k is addressed by the order id of purchase payload k and carries its
\* payload.
C16_CorrelationPreserved ==
    /\ \A i \in 1..Len(calculation_results) :
          /\ calculation_results[i].input_row = rows[i]
          /\ calculation_results[i].calculate_request = calculate_requests[i]
          /\ RenderedFrom(calculate_requests[i], rows[i])
          /\ calculation_results[i].reservation_order_id
                = calculate_responses[i].body["properties"]["reservationOrderId"]
    /\ \A k \in 1..Len(purchase_payloads) :
          /\ \E i \in 1..Len(calculation_results) : FromResult(k, i)
          /\ RenderedFrom(purchase_payloads[k].payload, rows[ResultOf(k)])
          /\ \A m \in 1..Len(purchase_payloads) : k < m => ResultOf(k) < ResultOf(m)
    /\ \A k \in 1..Len(purchase_requests) :
          /\ purchase_requests[k].url = purchase_payloads[k].reservation_order_id
          /\ purchase_requests[k].data = purchase_payloads[k].payload
          /\ results[k].reservation_order_id = purchase_requests[k].url
          /\ results[k].request_payload = purchase_requests[k].data

\* A batch that returned after two purchase calls for two different rows
C16_Witness ==
    /\ BatchReturned
    /\ Len(purchase_requests) = 2
    /\ rows[1]["displayName"] # rows[2]["displayName"]
    /\ purchase_requests[1].url # purchase_requests[2].url

\* C17: execute_batch_purchases hands the transport one request per entry of
\* purchase_payloads, in the order of the list and one after another: request
\* k is that of entry k, it is issued when the results of the k - 1 requests
\* before it are recorded, its own result is recorded with it, no request is
\* issued a second time, and the batch returns with as many requests as
\* entries.
C17_OneRequestPerEntryInOrder ==
    [][ /\ Len(purchase_requests') \in {Len(purchase_requests), Len(purchase_requests) + 1}
        /\ Len(purchase_requests') = Len(purchase_requests) + 1 =>
              LET k == Len(purchase_requests')
              IN  /\ k <= Len(purchase_payloads)
                  /\ Len(results) = k - 1
                  /\ Len(results') = k
                  /\ SubSeq(purchase_requests', 1, k - 1) = purchase_requests
                  /\ purchase_requests'[k]
                        = [url |-> purchase_payloads[k].reservation_order_id,
                           data |-> purchase_payloads[k].payload]
        /\ Len(purchase_requests') = Len(purchase_requests) =>
              purchase_requests' = purchase_requests /\ results' = results
        /\ pc' = "saved" =>
              /\ Len(purchase_requests') = Len(purchase_payloads')
              /\ Len(results') = Len(purchase_payloads')
      ]_vars

\* A batch of two entries that returned after two requests, the first of which
\* failed
C17_Witness ==
    /\ BatchReturned
    /\ Len(purchase_payloads) = 2
    /\ Len(purchase_requests) = 2
    /\ ~results[1].success

\* The waits the batch owes once its calls so far are made: one after each
\* call but the last of the list
WaitsDue ==
    IF Len(purchase_requests) < Len(purchase_payloads) THEN Len(purchase_requests)
    ELSE IF Len(purchase_payloads) = 0 THEN 0
    ELSE Len(purchase_payloads) - 1

\* C18: with a positive delay and N entries the batch waits once between each
\* two consecutive calls and never after the last: a wait is started only
\* after a call that is not the last, whatever its outcome, every call but
\* the last has been followed by one wait when the next is made, and the
\* batch returns after N - 1 waits (none for N = 0).
C18_WaitsBetweenCallsOnly ==
    /\ DelayBetweenRequests > 0
    /\ pc = "sleep" =>
          /\ Len(purchase_requests) >= 1
          /\ Len(purchase_requests) < Len(purchase_payloads)
          /\ sleeps = Len(purchase_requests) - 1
    /\ pc # "sleep" => sleeps = WaitsDue
    /\ BatchReturned =>
          sleeps = IF Len(purchase_payloads) = 0 THEN 0 ELSE Len(purchase_payloads) - 1

\* A batch of two entries that returned after one wait, made after a failed
\* first call
C18_Witness ==
    /\ BatchReturned
    /\ Len(purchase_payloads) = 2
    /\ sleeps = 1
    /\ ~results[1].success
    /\ results[2].success

\* A batch that waits after a failed call
WaitsAfterFailedCall ==
    pc = "sleep" /\ ~results[Len(results)].success

\* A batch of no entry that returned
EmptyBatchReturned == BatchReturned /\ purchase_payloads = <<>> /\ sleeps = 0

\* The operator's last answer to a prompt reads yes, or no
SaidYes(answer) ==
    answer.t = "str" /\ Lower(Strip(answer.s)) \in {<<"y","e","s">>, <<"y">>}
SaidNo(answer) ==
    answer.t = "str" /\ Lower(Strip(answer.s)) \in {<<"n","o">>, <<"n">>}

\* Every row of the file has a calculation result
EveryRowCalculated ==
    /\ Len(calculation_results) = Len(rows)
    /\ \A i \in 1..Len(rows) : AcceptedAt(i)

\* C19: in a run of main a purchase call is issued only after, in this order,
\* a token was obtained, every row was calculated, the operator said yes to
\* the payload-generation prompt and yes to the API-execution prompt; a no at
\* either prompt, a token failure or an error of the gate ends the run with
\* no purchase call.
C19_PurchaseOnlyAfterBothConfirmations ==
    /\ purchase_requests # <<>> =>
          /\ access_token = "token"
          /\ EveryRowCalculated
          /\ SaidYes(payloads_confirmation)
          /\ SaidYes(execution_confirmation)
          /\ error = NoError
    /\ execution_confirmation # Null =>
          SaidYes(payloads_confirmation) /\ error.where # "generate_api_payloads_with_order_ids"
    /\ payloads_confirmation # Null => EveryRowCalculated
    /\ calculate_requests # <<>> => access_token = "token"
    /\ ( \/ SaidNo(payloads_confirmation)
         \/ SaidNo(execution_confirmation)
         \/ error.where \in {"get_azure_access_token", "generate_api_payloads_with_order_ids"} )
          => pc = "done" /\ purchase_requests = <<>> /\ results = <<>>
    /\ access_token = "empty" =>
          pc \in {"calculate_enter", "done"} /\ purchase_requests = <<>> /\ results = <<>>

\* A run of main that issued a purchase call, after both prompts were answered
\* with a padded upper-case "Y"
C19_Witness ==
    /\ entry = "main"
    /\ Len(purchase_requests) >= 1
    /\ payloads_confirmation = S(<<" ","Y"," ">>)
    /\ execution_confirmation = S(<<" ","Y"," ">>)

\* The runs of main that end without a purchase call: a no at the first
\* prompt, a no at the second, a failure to get a token, an error of the gate
DeclinedPayloads == pc = "done" /\ SaidNo(payloads_confirmation)
DeclinedExecution == pc = "done" /\ SaidNo(execution_confirmation) /\ purchase_payloads # <<>>
TokenFailed == pc = "done" /\ error.where = "get_azure_access_token"

====
